---- MODULE Spec2Model ----
(***************************************************************************)
(* Model of the scheduler/pool of comics-zipper (src/compression.py):      *)
(* CompressionManager with its task list, its counters and flags, the      *)
(* ThreadPoolExecutor instances it creates and abandons, the futures       *)
(* submitted to them and the worker threads that run compress_directory    *)
(* and the completion hook _task_completed.                                *)
(*                                                                         *)
(* Granularity: a manager method (add_task, start, pause, resume, cancel)  *)
(* is one step; a worker thread advances one future through                *)
(*   queued -> dequeued -> running -> returned -> in_hook -> done          *)
(* one step at a time, so manager calls interleave with every worker       *)
(* position.  A future that shutdown(cancel_futures=True) finds in the     *)
(* queue is cancelled, which runs its done-callback in the calling thread. *)
(***************************************************************************)
EXTENDS Integers, Naturals, Sequences, FiniteSets, Bags, TLC

\* ---- bounds of the model ------------------------------------------------
MaxTasks == 2      \* add_task is disabled once the list has this length
MaxWorkers == 1    \* max_workers is drawn from 1..MaxWorkers
MaxExecutors == 2  \* pools that start()/resume() may create in one behaviour
MaxFutures == 3    \* futures that the submit loops may create in one behaviour

TaskIds == 1..MaxTasks
ExecIds == 1..MaxExecutors

VARIABLES
    tasks,            \* self.tasks: sequence of task records
    completed_tasks,  \* self.completed_tasks
    total_tasks,      \* self.total_tasks
    running,          \* self.running
    paused,           \* self.paused
    executor,         \* self.executor: 0 is None, else the id of the pool
    max_workers,      \* self.max_workers
    lock,             \* self.lock: <<>> when free, else <<e, t>> of the holder
    nexec,            \* number of ThreadPoolExecutor objects created so far
    fut,              \* fut[e][t]: position of the future of task t in pool e
    controlCalled,    \* history: pause(), resume() or cancel() was called
    cancelCalled,     \* history: cancel() was called
    hook,             \* locals of the thread inside `with self.lock`: <<>> when none
    fs,               \* the directory tree: a set of file and directory nodes
    fs0,              \* the directory tree as it was before the first step
    chapter_cache,    \* FileSystemScanner.chapter_cache: path -> bool
    comic_chapters,   \* the list returned by scan_for_comic_directories
    frame,            \* locals of the scanner or archiver call in progress: <<>> when none
    stats,            \* the dictionary returned by the last get_stats(): <<>> when none
    progress_calls,   \* the fractions progress_callback was called with, in order
    returned          \* dir_path -> outcome of the last is_chapter_directory(dir_path)

vars == <<tasks, completed_tasks, total_tasks, running, paused, executor,
          max_workers, lock, nexec, fut, controlCalled,
          cancelCalled, hook, fs, fs0, chapter_cache, comic_chapters, frame,
          stats, progress_calls, returned>>

mgr == <<completed_tasks, total_tasks, running, paused, executor>>

\* state that the operations of the manager and the coarse worker steps
\* never touch
disk == <<fs, fs0, chapter_cache, comic_chapters, frame, stats, progress_calls, returned>>

aux == <<hook, fs, fs0, chapter_cache, comic_chapters, frame, stats, progress_calls, returned>>

\* the pool part of the state that the scanner and the archiver never touch
sched == <<completed_tasks, total_tasks, running, paused, executor, max_workers,
          lock, nexec, fut, controlCalled, cancelCalled, hook>>

Terminal == {"completed", "failed", "cancelled"}
Free == <<>>

\* ---- CompressionTask ----------------------------------------------------
\* the fields the scheduler model follows: status, error and end_time
\* (None, or set); the archive itself is the subject of the archiver model
CompressionTask == [status |-> "pending", error |-> "None", end_time |-> "None"]

StatusOf(ts, t) == IF t \in 1..Len(ts) THEN ts[t].status ELSE "absent"

SetStatus(ts, t, s) == [ts EXCEPT ![t].status = s]

\* the two ways compress_directory ends: the last statement of the try block,
\* or the except branch; `task.end_time = time.time()` follows both
Completed(ts, t) == [ts EXCEPT ![t].status = "completed", ![t].end_time = "set"]

FailedWithoutError(ts, t) == [ts EXCEPT ![t].status = "failed", ![t].end_time = "set"]

Failed(ts, t) == [ts EXCEPT ![t].status = "failed", ![t].error = "Exception",
                                ![t].end_time = "set"]

\* ---- the submit loops of start() and resume() ---------------------------
\* `for task in self.tasks: if task.status == "pending": submit(...)`:
\* a fresh pool holds one queued future per pending task
StartResubmitsFailed(ts) == [t \in TaskIds |->
    IF t \in 1..Len(ts) /\ ts[t].status \in {"pending", "failed"} THEN "queued" ELSE "none"]

StartSubmit(ts) == [t \in TaskIds |->
    IF t \in 1..Len(ts) /\ ts[t].status = "pending" THEN "queued" ELSE "none"]

ResumeSubmitsNothing(ts) == [t \in TaskIds |-> "none"]

ResumeSubmit(ts) == [t \in TaskIds |->
    IF t \in 1..Len(ts) /\ ts[t].status = "pending" THEN "queued" ELSE "none"]

\* ---- helpers of the pool ------------------------------------------------
Queued(f, e) == {t \in TaskIds : f[e][t] = "queued"}

\* futures a worker thread of pool e is busy with
Active(f, e) == {t \in TaskIds : f[e][t] \in {"dequeued", "running", "returned", "counted", "in_hook"}}

Min(S) == CHOOSE x \in S : \A y \in S : x <= y

\* shutdown(wait=False, cancel_futures=True): every queued future is cancelled
Shutdown(f, e) == [f EXCEPT ![e] = [t \in TaskIds |-> IF f[e][t] = "queued" THEN "cancelled" ELSE f[e][t]]]

\* the increment of _task_completed
IncrementForgotten(c) == c

IncrementTwice(c) == c + 2

Increment(c) == c + 1

\* Future.cancel() runs the done-callbacks in the thread that called
\* shutdown: _task_completed increments the counter once per cancelled future
\* and then raises (CancelledError from future.result(), or
\* ZeroDivisionError), so update_callback is not reached
CountCancelled(c, f, e) == c + Cardinality(Queued(f, e))

\* the loop at the end of cancel()
CancelAlsoPending(ts) == [t \in 1..Len(ts) |->
    IF ts[t].status \in {"running", "pending"} THEN [ts[t] EXCEPT !.status = "cancelled"] ELSE ts[t]]

CancelStatuses(ts) == [t \in 1..Len(ts) |->
    IF ts[t].status = "running" THEN [ts[t] EXCEPT !.status = "cancelled"] ELSE ts[t]]

\* futures created so far, and the cap that keeps their number finite
CanSubmit(f, pool) ==
    Cardinality({<<e, t>> \in ExecIds \X TaskIds : f[e][t] # "none"})
        + Cardinality({t \in TaskIds : pool[t] = "queued"}) <= MaxFutures

\* ---- Init: the manager after __init__ -----------------------------------
Init ==
    /\ tasks = <<>>
    /\ completed_tasks = 0
    /\ total_tasks = 0
    /\ running = FALSE
    /\ paused = FALSE
    /\ executor = 0
    /\ max_workers \in 1..MaxWorkers
    /\ lock = Free
    /\ nexec = 0
    /\ fut = [e \in ExecIds |-> [t \in TaskIds |-> "none"]]
    /\ controlCalled = FALSE
    /\ cancelCalled = FALSE
    /\ hook = <<>>
    /\ fs = {} /\ fs0 = {}
    /\ chapter_cache = <<>>
    /\ comic_chapters = <<>>
    /\ frame = <<>>
    /\ stats = <<>> /\ progress_calls = <<>> /\ returned = <<>>

\* ---- manager operations -------------------------------------------------
add_task ==
    /\ Len(tasks) < MaxTasks
    /\ tasks' = Append(tasks, CompressionTask)
    /\ UNCHANGED <<mgr, max_workers, lock, nexec, fut, controlCalled, cancelCalled>>
    /\ UNCHANGED aux

\* the guard of start(): `if self.running: return`
StartGuardMissing(r) == FALSE

StartIsNoop(r) == r

start ==
    /\ IF StartIsNoop(running)
       THEN UNCHANGED <<tasks, mgr, max_workers, lock, nexec, fut>>
       ELSE /\ running' = TRUE
            /\ paused' = FALSE
            /\ completed_tasks' = 0
            /\ total_tasks' = Len(tasks)
            /\ IF Len(tasks) = 0
               THEN UNCHANGED <<executor, nexec, fut>>
               ELSE /\ nexec < MaxExecutors
                    /\ CanSubmit(fut, StartSubmit(tasks))
                    /\ nexec' = nexec + 1
                    /\ executor' = nexec + 1
                    /\ fut' = [fut EXCEPT ![nexec + 1] = StartSubmit(tasks)]
            /\ UNCHANGED <<tasks, max_workers, lock>>
    /\ UNCHANGED <<controlCalled, cancelCalled>>
    /\ UNCHANGED aux

\* a caller of shutdown that has futures to cancel runs their hooks and
\* therefore needs self.lock
CanShutdown == executor # 0 /\ Queued(fut, executor) # {} => lock = Free

pause ==
    /\ CanShutdown
    /\ controlCalled' = TRUE
    /\ paused' = TRUE
    /\ IF executor # 0
       THEN /\ fut' = Shutdown(fut, executor)
            /\ completed_tasks' = CountCancelled(completed_tasks, fut, executor)
            /\ executor' = 0
       ELSE UNCHANGED <<fut, completed_tasks, executor>>
    /\ UNCHANGED <<tasks, total_tasks, running, max_workers, lock, nexec, cancelCalled>>
    /\ UNCHANGED aux

\* the guard of resume(): `if not self.paused: return`
ResumeGuardMissing(p) == FALSE

ResumeIsNoop(p) == ~p

resume ==
    /\ controlCalled' = TRUE
    /\ IF ResumeIsNoop(paused)
       THEN UNCHANGED <<tasks, mgr, max_workers, lock, nexec, fut>>
       ELSE /\ nexec < MaxExecutors
            /\ CanSubmit(fut, ResumeSubmit(tasks))
            /\ nexec' = nexec + 1
            /\ executor' = nexec + 1
            /\ fut' = [fut EXCEPT ![nexec + 1] = ResumeSubmit(tasks)]
            /\ paused' = FALSE
            /\ UNCHANGED <<tasks, completed_tasks, total_tasks, running, max_workers, lock>>
    /\ UNCHANGED cancelCalled
    /\ UNCHANGED aux

cancel ==
    /\ CanShutdown
    /\ controlCalled' = TRUE
    /\ cancelCalled' = TRUE
    /\ running' = FALSE
    /\ IF executor # 0
       THEN /\ fut' = Shutdown(fut, executor)
            /\ completed_tasks' = CountCancelled(completed_tasks, fut, executor)
            /\ executor' = 0
       ELSE UNCHANGED <<fut, completed_tasks, executor>>
    /\ tasks' = CancelStatuses(tasks)
    /\ UNCHANGED <<total_tasks, paused, max_workers, lock, nexec>>
    /\ UNCHANGED aux

\* ---- worker threads -----------------------------------------------------
\* _worker: work_queue.get() hands the oldest work item to a free thread
Dequeue(e, t) ==
    /\ Queued(fut, e) # {}
    /\ t = Min(Queued(fut, e))
    /\ Cardinality(Active(fut, e)) < max_workers
    /\ fut' = [fut EXCEPT ![e][t] = "dequeued"]
    /\ UNCHANGED <<tasks, mgr, max_workers, lock, nexec, controlCalled, cancelCalled>>
    /\ UNCHANGED aux

\* work_item.run() enters compress_directory: task.status = "running"
BeginExecute(e, t) ==
    /\ fut[e][t] = "dequeued"
    /\ fut' = [fut EXCEPT ![e][t] = "running"]
    /\ tasks' = SetStatus(tasks, t, "running")
    /\ UNCHANGED <<mgr, max_workers, lock, nexec, controlCalled, cancelCalled>>
    /\ UNCHANGED aux

\* the body of compress_directory ends with "completed", or "failed" when a
\* step raised
FinishExecute(e, t) ==
    /\ fut[e][t] = "running"
    /\ tasks' = Completed(tasks, t) \/ tasks' = Failed(tasks, t)
    /\ fut' = [fut EXCEPT ![e][t] = "returned"]
    /\ UNCHANGED <<mgr, max_workers, lock, nexec, controlCalled, cancelCalled>>
    /\ UNCHANGED aux

\* _task_completed: takes the lock, increments, computes progress and calls
\* update_callback (future phase in_hook); the division raises when
\* total_tasks is 0 and the lock is released without a callback
TaskCompletedEnter(e, t) ==
    /\ fut[e][t] = "returned"
    /\ lock = Free
    /\ completed_tasks' = Increment(completed_tasks)
    /\ IF total_tasks = 0
       THEN fut' = [fut EXCEPT ![e][t] = "raised"] /\ UNCHANGED lock
       ELSE fut' = [fut EXCEPT ![e][t] = "in_hook"] /\ lock' = <<e, t>>
    /\ UNCHANGED <<tasks, total_tasks, running, paused, executor, max_workers, nexec,
                   controlCalled, cancelCalled>>
    /\ UNCHANGED aux

\* update_callback returns and the `with self.lock` block is left
TaskCompletedExit(e, t) ==
    /\ fut[e][t] = "in_hook"
    /\ lock = <<e, t>>
    /\ fut' = [fut EXCEPT ![e][t] = "done"]
    /\ lock' = Free
    /\ UNCHANGED <<tasks, mgr, max_workers, nexec, controlCalled, cancelCalled>>
    /\ UNCHANGED aux

Worker ==
    \E e \in ExecIds, t \in TaskIds :
        \/ Dequeue(e, t)
        \/ BeginExecute(e, t)
        \/ FinishExecute(e, t)
        \/ TaskCompletedEnter(e, t)
        \/ TaskCompletedExit(e, t)

Next ==
    \/ add_task
    \/ start
    \/ pause
    \/ resume
    \/ cancel
    \/ Worker

Spec == Init /\ [][Next]_vars

\* ---- the liveness specification: no cancel(), fair worker threads -------
LiveNext ==
    \/ add_task
    \/ start
    \/ pause
    \/ resume
    \/ Worker

LiveSpec == Init /\ [][LiveNext]_vars /\ WF_vars(Worker)

\* ---- the completion hook statement by statement -------------------------
\* start() writes completed_tasks and total_tasks without self.lock, so its
\* writes interleave with the statements of a hook that holds the lock.
\* `with self.lock: self.completed_tasks += 1`
HookIncrement(e, t) ==
    /\ fut[e][t] = "returned"
    /\ lock = Free
    /\ lock' = <<e, t>>
    /\ completed_tasks' = Increment(completed_tasks)
    /\ hook' = [own |-> Increment(completed_tasks)]
    /\ fut' = [fut EXCEPT ![e][t] = "counted"]
    /\ UNCHANGED <<tasks, total_tasks, running, paused, executor, max_workers, nexec,
                   controlCalled, cancelCalled>>
    /\ UNCHANGED disk

\* `progress = self.completed_tasks / self.total_tasks`, then the call of
\* update_callback(progress, task); ZeroDivisionError leaves the with block
HookProgress(e, t) ==
    /\ fut[e][t] = "counted"
    /\ lock = <<e, t>>
    /\ IF total_tasks = 0
       THEN /\ fut' = [fut EXCEPT ![e][t] = "raised"]
            /\ lock' = Free
            /\ hook' = <<>>
       ELSE /\ fut' = [fut EXCEPT ![e][t] = "in_hook"]
            /\ hook' = [own |-> hook.own, progress |-> <<completed_tasks, total_tasks>>]
            /\ UNCHANGED lock
    /\ UNCHANGED <<tasks, mgr, max_workers, nexec, controlCalled, cancelCalled>>
    /\ UNCHANGED disk

\* update_callback returns and the with block is left
HookExit(e, t) ==
    /\ fut[e][t] = "in_hook"
    /\ lock = <<e, t>>
    /\ fut' = [fut EXCEPT ![e][t] = "done"]
    /\ lock' = Free
    /\ hook' = <<>>
    /\ UNCHANGED <<tasks, mgr, max_workers, nexec, controlCalled, cancelCalled>>
    /\ UNCHANGED disk

HookWorker ==
    \E e \in ExecIds, t \in TaskIds :
        \/ Dequeue(e, t)
        \/ BeginExecute(e, t)
        \/ FinishExecute(e, t)
        \/ HookIncrement(e, t)
        \/ HookProgress(e, t)
        \/ HookExit(e, t)

HookNext ==
    \/ add_task
    \/ start
    \/ pause
    \/ resume
    \/ cancel
    \/ HookWorker

HookSpec == Init /\ [][HookNext]_vars

\* ---- observations on the futures ----------------------------------------
\* no future is queued or in the hands of a worker
AllSettled == \A e \in ExecIds, t \in TaskIds :
    fut[e][t] \in {"none", "cancelled", "raised", "done"}

RunTasksTerminal == \A t \in 1..total_tasks : StatusOf(tasks, t) \in {"completed", "failed"}

\* ---- claims -------------------------------------------------------------

C2_CountsOnlyFinishedOnce ==
    LET \* how often compress_directory returned for task t
        Finished(t) == Cardinality({e \in ExecIds :
            fut[e][t] \in {"returned", "counted", "in_hook", "raised", "done"}})
        \* how often _task_completed incremented the counter for a future of task t
        Counted(t) == Cardinality({e \in ExecIds :
            fut[e][t] \in {"cancelled", "counted", "in_hook", "raised", "done"}})
    IN \A t \in TaskIds : Counted(t) <= Finished(t) /\ Counted(t) <= 1

\* C3: compress_directory is entered at most once for every task.
C3_NoTaskExecutedTwice ==
    \A t \in TaskIds :
        Cardinality({e \in ExecIds :
            fut[e][t] \in {"running", "returned", "counted", "in_hook", "raised", "done"}}) <= 1

\* C4: without cancel() and with fair workers, a run that was paused and is
\* resumed for good ends with every task of the run completed or failed.
C4_PauseResumeAllTerminal ==
    <>[](running /\ ~paused /\ controlCalled) => <>[]RunTasksTerminal

C4_Witness ==
    /\ running /\ ~paused /\ controlCalled
    /\ nexec >= 2
    /\ total_tasks >= 2
    /\ \E t \in TaskIds : fut[1][t] = "cancelled" /\ fut[2][t] = "done"
    /\ AllSettled
    /\ RunTasksTerminal

C6_StatusMonotonic ==
    [][\A t \in 1..Len(tasks) :
        /\ tasks[t].status \in Terminal => tasks'[t].status = tasks[t].status
        /\ tasks[t].status = "running" => tasks'[t].status # "pending"]_vars

\* C7: once cancel() has returned, no task begins execution.
C7_CancelIsTerminal ==
    [][cancelCalled =>
        \A e \in ExecIds, t \in TaskIds :
            fut'[e][t] = "running" => fut[e][t] = "running"]_vars

\* C8: pause() sets paused and changes no status, and while the pool stays
\* paused (no resume()) no pending task leaves pending.
C8_PendingStaysPendingWhilePaused ==
    [][/\ pause => paused' /\ tasks' = tasks
       /\ (paused /\ paused') =>
            \A t \in 1..Len(tasks) :
                tasks[t].status = "pending" => tasks'[t].status = "pending"]_vars

\* C9: resume() on a pool that is not paused changes no field; on a paused
\* pool it creates one pool holding exactly the pending tasks and clears
\* paused.
C9_ResumeFrame ==
    [][resume =>
        IF ~paused
        THEN UNCHANGED <<tasks, completed_tasks, total_tasks, running, paused,
                         executor, max_workers, lock, nexec, fut>>
        ELSE /\ nexec' = nexec + 1
             /\ executor' = nexec'
             /\ \A t \in TaskIds :
                    fut'[nexec'][t] = IF StatusOf(tasks, t) = "pending"
                                      THEN "queued" ELSE "none"
             /\ \A e \in ExecIds \ {nexec'} : fut'[e] = fut[e]
             /\ ~paused'
             /\ UNCHANGED <<tasks, completed_tasks, total_tasks, running>>]_vars

C9_Witness ==
    /\ running /\ ~paused /\ ~cancelCalled
    /\ executor = 2
    /\ \E t \in TaskIds : fut[1][t] = "cancelled" /\ fut[2][t] = "queued"
    /\ \E t \in 1..Len(tasks) :
        fut[2][t] = "none" /\ tasks[t].status \in {"running", "completed", "failed"}

\* C10: start() while running is already true changes nothing.
C10_StartWhileRunningIsNoop ==
    [][(start /\ running) =>
        UNCHANGED <<tasks, completed_tasks, total_tasks, running, paused,
                    executor, max_workers, lock, nexec, fut>>]_vars

C10_Witness ==
    /\ running /\ ~controlCalled
    /\ completed_tasks > 0
    /\ \E e \in ExecIds, t \in TaskIds : fut[e][t] = "queued"

\* ---- start(), get_progress() and retries --------------------------------
PendingTasks(ts) == {t \in 1..Len(ts) : ts[t].status = "pending"}

\* C11: start() on a pool that is not running sets running, clears paused,
\* resets the counter to 0, sets total_tasks to the number of tasks that are
\* pending at that moment and submits exactly those tasks.
C11_StartSnapshotsPending ==
    [][(start /\ ~running) =>
        /\ running' /\ ~paused'
        /\ completed_tasks' = 0
        /\ total_tasks' = Cardinality(PendingTasks(tasks))
        /\ PendingTasks(tasks) # {} =>
            /\ executor' = nexec + 1
            /\ \A t \in TaskIds :
                fut'[executor'][t] = IF t \in PendingTasks(tasks) THEN "queued" ELSE "none"]_vars

\* get_progress(): the quotient completed_tasks / total_tasks is kept as the
\* pair <<numerator, denominator>>; the literal 0 of the early return is <<0, 1>>
get_progress(c, n) == IF n = 0 THEN <<0, 1>> ELSE <<c, n>>

\* C12: in every reachable state get_progress() is completed_tasks /
\* total_tasks when total_tasks > 0 and 0 when it is 0, and the value lies
\* in [0, 1].
C12_ProgressInUnitInterval ==
    LET p == get_progress(completed_tasks, total_tasks) IN
        /\ total_tasks > 0 => p = <<completed_tasks, total_tasks>>
        /\ total_tasks = 0 => p[1] = 0
        /\ 0 <= p[1] /\ p[1] <= p[2]

\* C16: a failed task is never retried: start(), pause(), resume() and
\* cancel() leave the status of a failed task failed and put no future of it
\* into a queue: a step after which a failed task is not failed any more, or
\* has a future newly queued, is not a step of one of these four operations.
C16_FailedNeverResubmitted ==
    [][(\E t \in 1..Len(tasks) :
            /\ tasks[t].status = "failed"
            /\ \/ tasks'[t].status # "failed"
               \/ \E e \in ExecIds : fut'[e][t] = "queued" /\ fut[e][t] # "queued")
        => ~(start \/ pause \/ resume \/ cancel)]_vars

\* a second start() (the counter is back at 0) found task t failed, its only
\* future done, and gave it no future in the new pool
C16_Witness ==
    /\ running /\ cancelCalled
    /\ executor = 2
    /\ completed_tasks = 0
    /\ \E t \in 1..Len(tasks) :
        /\ tasks[t].status = "failed"
        /\ fut[1][t] = "done"
        /\ fut[2][t] = "none"
    /\ \E t \in 1..Len(tasks) : fut[2][t] = "queued"

\* ---- failures -----------------------------------------------------------
\* C15: a task whose execution raised is failed with its error stored and
\* end_time recorded, and in a run without pause(), resume() or cancel() a
\* failure does not stop the pool: every task of the run still becomes
\* completed or failed.
C15_FailureIsContained ==
    /\ [](\A t \in 1..Len(tasks) :
            tasks[t].status = "failed" =>
                tasks[t].error # "None" /\ tasks[t].end_time # "None")
    /\ ([]~controlCalled) => []((running /\ \E t \in 1..Len(tasks) : tasks[t].status = "failed")
                                    => <>RunTasksTerminal)

C15_Witness ==
    /\ running /\ ~controlCalled
    /\ total_tasks >= 2
    /\ tasks[1].status = "failed" /\ tasks[1].error # "None"
    /\ tasks[2].status = "completed"
    /\ AllSettled

\* ---- the progress callback ----------------------------------------------
\* C14: update_callback never runs in two threads at once, every invocation
\* holds self.lock, and the progress it is given is computed from the counter
\* value that its own increment produced.
C14_CallbackSerialized ==
    LET InCallback == {<<e, t>> \in ExecIds \X TaskIds : fut[e][t] = "in_hook"}
    IN /\ Cardinality(InCallback) <= 1
       /\ \A c \in InCallback :
            /\ lock = c
            /\ hook.progress[1] = hook.own

(***************************************************************************)
(* The directory tree, the scanner (src/filesystem.py) and the archiver    *)
(* (compress_directory).  A file name is a sequence of tokens: ".", one    *)
(* digit, a line feed, or a run of other characters; a path is the         *)
(* sequence of the names from the root down.                               *)
(***************************************************************************)
Max(S) == CHOOSE x \in S : \A y \in S : y <= x

\* str.lower() on the tokens that have an upper-case letter
lower(name) == [i \in DOMAIN name |->
    CASE name[i] = "JPG" -> "jpg"
      [] name[i] = "PNG" -> "png"
      [] name[i] = "ZIP" -> "zip"
      [] OTHER -> name[i]]

\* os.path.splitext: the extension starts at the last dot, unless only dots
\* come before it
splitext(name) ==
    LET dots == {i \in DOMAIN name : name[i] = "."} IN
        IF dots # {} /\ \E j \in 1..(Max(dots) - 1) : name[j] # "."
        THEN <<SubSeq(name, 1, Max(dots) - 1), SubSeq(name, Max(dots), Len(name))>>
        ELSE <<name, <<>>>>

image_extensions ==
    {<<".", "jpg">>, <<".", "jpeg">>, <<".", "png">>, <<".", "gif">>, <<".", "bmp">>,
     <<".", "webp">>, <<".", "tiff">>, <<".", "tif">>, <<".", "ico">>, <<".", "jfif">>,
     <<".", "heic">>}

is_image_file(name) == splitext(lower(name))[2] \in image_extensions

excluded_dirs ==
    {<<".", "git">>, <<"__pycache__">>, <<".", "svn">>, <<"node_modules">>, <<".", "vscode">>}

\* os.path.basename, dirname and join on a path
basename(path) == path[Len(path)]

dirname(path) == SubSeq(path, 1, Len(path) - 1)

join(path, name) == Append(path, name)

\* nodes of the tree; entries is the content of a zip archive
File(path, size) == [path |-> path, kind |-> "file", size |-> size, entries |-> EmptyBag]

Dir(path) == [path |-> path, kind |-> "dir", size |-> 0, entries |-> EmptyBag]

exists(f, path) == \E n \in f : n.path = path

isdir(f, path) == \E n \in f : n.path = path /\ n.kind = "dir"

\* os.scandir(path): the entries directly inside the directory
scandir(f, path) == {n \in f : Len(n.path) = Len(path) + 1 /\ dirname(n.path) = path}

\* everything below the directory, at any depth
Below(f, path) == {n \in f : Len(n.path) > Len(path) /\ SubSeq(n.path, 1, Len(path)) = path}

\* dict assignment
Put(d, k, v) == [x \in DOMAIN d \cup {k} |-> IF x = k THEN v ELSE d[x]]

\* ---- is_chapter_directory, one directory entry at a time -----------------
MaxEntries == 7    \* entries that the classified directory may hold

ClassDir == <<"D">>

\* the entries the directory is filled from: images, other files, ordinary
\* and excluded sub-directories
EntryPool ==
    << File(<<"D", <<"a", ".", "jpg">>>>, 1),
       File(<<"D", <<"n", ".", "txt">>>>, 1),
       Dir(<<"D", <<"d">>>>),
       Dir(<<"D", <<".", "git">>>>),
       File(<<"D", <<"b", ".", "JPG">>>>, 1),
       File(<<"D", <<".", "jpg">>>>, 1),
       Dir(<<"D", <<"x", ".", "png">>>>),
       Dir(<<"D", <<"node_modules">>>>),
       File(<<"D", <<"c", ".", "png", ".", "txt">>>>, 1) >>

Entries == {EntryPool[i] : i \in 1..(IF MaxEntries < Len(EntryPool) THEN MaxEntries ELSE Len(EntryPool))}

PoolIdle ==
    /\ completed_tasks = 0 /\ total_tasks = 0
    /\ running = FALSE /\ paused = FALSE
    /\ executor = 0 /\ max_workers = 1
    /\ lock = Free /\ nexec = 0
    /\ fut = [e \in ExecIds |-> [t \in TaskIds |-> "none"]]
    /\ controlCalled = FALSE /\ cancelCalled = FALSE
    /\ hook = <<>>

ClassifyInit ==
    /\ PoolIdle
    /\ tasks = <<>>
    /\ \E content \in SUBSET Entries : fs = {Dir(ClassDir)} \cup content
    /\ fs0 = fs
    /\ chapter_cache = <<>>
    /\ comic_chapters = <<>>
    /\ frame = <<>>
    /\ stats = <<>>
    /\ progress_calls = <<>>
    /\ returned = <<>>

\* the call up to the start of the loop; scandir raises FileNotFoundError
\* for a missing directory and the except branch caches and returns False
is_chapter_directory(dir_path) ==
    /\ frame = <<>>
    /\ dir_path \notin DOMAIN chapter_cache
    /\ IF isdir(fs, dir_path)
       THEN /\ frame' = [fn |-> "is_chapter_directory", dir_path |-> dir_path,
                         rest |-> scandir(fs, dir_path),
                         has_images |-> FALSE, has_subdirs |-> FALSE]
            /\ UNCHANGED chapter_cache
       ELSE /\ ~exists(fs, dir_path)
            /\ chapter_cache' = Put(chapter_cache, dir_path, FALSE)
            /\ UNCHANGED frame
    /\ UNCHANGED <<tasks, sched, fs, fs0, comic_chapters, stats, progress_calls, returned>>

\* one iteration of `for item in os.scandir(dir_path)`; scandir yields the
\* entries in no particular order; `break` abandons the remaining entries
ScandirItem(item) ==
    /\ frame # <<>> /\ frame.fn = "is_chapter_directory"
    /\ item \in frame.rest
    /\ IF item.kind = "file" /\ is_image_file(basename(item.path))
       THEN frame' = [frame EXCEPT !.has_images = TRUE, !.rest = @ \ {item}]
       ELSE IF item.kind = "dir" /\ basename(item.path) \notin excluded_dirs
            THEN frame' = [frame EXCEPT !.has_subdirs = TRUE,
                                        !.rest = IF frame.has_images THEN {} ELSE @ \ {item}]
            ELSE frame' = [frame EXCEPT !.rest = @ \ {item}]
    /\ UNCHANGED <<tasks, sched, fs, fs0, chapter_cache, comic_chapters, stats, progress_calls, returned>>

\* the statements after the loop
ChapterOnlyWithoutSubdirs(has_images, has_subdirs) == has_images /\ ~has_subdirs

ChapterResult(has_images, has_subdirs) ==
    IF has_images /\ has_subdirs THEN TRUE ELSE has_images /\ ~has_subdirs

is_chapter_directory_return ==
    /\ frame # <<>> /\ frame.fn = "is_chapter_directory"
    /\ frame.rest = {}
    /\ chapter_cache' = Put(chapter_cache, frame.dir_path,
                            ChapterResult(frame.has_images, frame.has_subdirs))
    /\ frame' = <<>>
    /\ UNCHANGED <<tasks, sched, fs, fs0, comic_chapters, stats, progress_calls, returned>>

\* the paths the classifier is asked about: every directory and one that
\* does not exist
ClassifyPaths == {n.path : n \in {m \in fs : m.kind = "dir"}} \cup {<<"D", <<"gone">>>>}

ClassifyNext ==
    \/ \E dir_path \in ClassifyPaths : is_chapter_directory(dir_path)
    \/ \E item \in fs : ScandirItem(item)
    \/ is_chapter_directory_return

ClassifySpec == ClassifyInit /\ [][ClassifyNext]_vars

\* a file with a recognized image extension directly inside the directory
DirectImages(f, path) ==
    {n \in scandir(f, path) : n.kind = "file" /\ is_image_file(basename(n.path))}

MaxImages == 2     \* image files directly inside a source directory
MaxChapters == 2   \* directories inside the series directory of a scanned tree

\* positions in the task list of the archiver: a scan adds at most two tasks
\* for each of these directories
ArchiveIds == 1..(2 * MaxChapters)

\* the task with every field the archiver reads or writes
ArchiveTask(source_path, target_path, rename_pattern) ==
    [status |-> "pending", error |-> "None", end_time |-> "None",
     source_path |-> source_path, target_path |-> target_path,
     rename_pattern |-> rename_pattern,
     image_count |-> 0, original_size |-> 0, compressed_size |-> 0, md5 |-> "None"]

RECURSIVE SumSizes(_)
SumSizes(nodes) ==
    IF nodes = {} THEN 0
    ELSE LET n == CHOOSE m \in nodes : TRUE IN n.size + SumSizes(nodes \ {n})

\* the files the two os.walk loops select: image files at any depth
ImagesBelow(f, path) ==
    {n \in Below(f, path) : n.kind = "file" /\ is_image_file(basename(n.path))}

\* count_images_in_directory: <<count, total_size>>
count_images_in_top_directory(f, directory) ==
    <<Cardinality(ImagesBelow(f, directory) \cap scandir(f, directory)),
      SumSizes(ImagesBelow(f, directory) \cap scandir(f, directory))>>

count_images_in_directory(f, directory) ==
    <<Cardinality(ImagesBelow(f, directory)), SumSizes(ImagesBelow(f, directory))>>

\* an archive entry: the base name (arcname=file) and the file size
Entry(n) == [name |-> basename(n.path), size |-> n.size]

\* ZipFile.write appends an entry per call; an entry whose name is already in
\* the archive is added all the same ("Duplicate name" is only a warning)
RECURSIVE ZipEntries(_)
ZipEntries(nodes) ==
    IF nodes = {} THEN EmptyBag
    ELSE LET n == CHOOSE m \in nodes : TRUE
         IN ZipEntries(nodes \ {n}) (+) SetToBag({Entry(n)})

RECURSIVE EntriesSize(_)
EntriesSize(b) ==
    IF b = EmptyBag THEN 0
    ELSE LET x == CHOOSE y \in BagToSet(b) : TRUE
         IN x.size + EntriesSize(b (-) SetToBag({x}))

\* the archive file: its size on disk stands for header plus data
Archive(path, content) ==
    [path |-> path, kind |-> "file", size |-> 1 + EntriesSize(content), entries |-> content]

\* number_only_pattern = re.compile(r'^(\d+)\.zip$'): \d+ takes the leading
\* digits, and $ matches at the end or before a line feed that ends the name
IsDigit(c) == c \in {"0", "1", "2", "3", "4", "5", "6", "7", "8", "9"}

LeadingDigits(name) ==
    IF \E i \in DOMAIN name : ~IsDigit(name[i])
    THEN Min({i \in DOMAIN name : ~IsDigit(name[i])}) - 1
    ELSE Len(name)

number_only_pattern_match(name) ==
    /\ LeadingDigits(name) >= 1
    /\ SubSeq(name, LeadingDigits(name) + 1, Len(name)) \in {<<".", "zip">>, <<".", "zip", "\n">>}

\* lines 129-137: the final target path; the tokens "U+7B2C" and "U+7AE0" are
\* the two CJK characters of the chapter name
final_target_path(task) ==
    IF task.rename_pattern /\ number_only_pattern_match(basename(task.target_path))
    THEN join(dirname(task.target_path),
              <<"U+7B2C">> \o SubSeq(basename(task.target_path), 1,
                                 LeadingDigits(basename(task.target_path)))
                      \o <<"U+7AE0", ".", "zip">>)
    ELSE task.target_path

\* f"{task.target_path}.temp"
temp_target_path(task) ==
    join(dirname(task.target_path), basename(task.target_path) \o <<".", "temp">>)

\* shutil.rmtree
rmtree_contents(f, path) == {n \in f : n \notin Below(f, path)}

rmtree(f, path) == {n \in f : n.path # path /\ n \notin Below(f, path)}

\* ---- get_stats ----------------------------------------------------------
RECURSIVE SumField(_, _)
SumField(ts, field) ==
    IF ts = <<>> THEN 0 ELSE Head(ts)[field] + SumField(Tail(ts), field)

WithStatus(ts, st) == LET Test(t) == t.status = st IN SelectSeq(ts, Test)

get_stats_all_tasks(ts, total, counter) ==
    [total_tasks |-> total,
     completed_tasks |-> counter,
     failed_tasks |-> Len(WithStatus(ts, "failed")),
     total_images |-> SumField(ts, "image_count"),
     total_original_size |-> SumField(ts, "original_size"),
     total_compressed_size |-> SumField(ts, "compressed_size"),
     compression_ratio |->
        IF SumField(ts, "original_size") # 0
        THEN <<SumField(ts, "compressed_size"), SumField(ts, "original_size")>>
        ELSE 0]

get_stats(ts, total, counter) ==
    [total_tasks |-> total,
     completed_tasks |-> counter,
     failed_tasks |-> Len(WithStatus(ts, "failed")),
     total_images |-> SumField(WithStatus(ts, "completed"), "image_count"),
     total_original_size |-> SumField(WithStatus(ts, "completed"), "original_size"),
     total_compressed_size |-> SumField(WithStatus(ts, "completed"), "compressed_size"),
     compression_ratio |->
        IF SumField(WithStatus(ts, "completed"), "original_size") # 0
        THEN <<SumField(WithStatus(ts, "completed"), "compressed_size"),
               SumField(WithStatus(ts, "completed"), "original_size")>>
        ELSE 0]

\* ---- the archiver specification -----------------------------------------
\* Two source directories under one series directory.  The first holds up
\* to MaxImages images, a text file and possibly a sub-directory with an
\* image of an already used name; the second holds one image.
SeriesDir == <<<<"S">>>>

SourceA == join(SeriesDir, <<"c">>)

SourceB == join(SeriesDir, <<"e">>)

ImagePool ==
    << <<"a", ".", "jpg">>, <<"b", ".", "JPG">>, <<"c", ".", "png">>, <<"d", ".", "gif">> >>

SourceATree(k, deep) ==
    {Dir(SourceA), File(join(SourceA, <<"n", ".", "txt">>), 8)}
        \cup {File(join(SourceA, ImagePool[i]), i) :
                    i \in 1..(IF k < Len(ImagePool) THEN k ELSE Len(ImagePool))}
        \cup (IF deep
              THEN {Dir(join(SourceA, <<"d">>)),
                    File(join(join(SourceA, <<"d">>), <<"a", ".", "jpg">>), 4)}
              ELSE {})

\* the target paths add_task is called with
TargetNames ==
    { <<"c", ".", "zip">>, <<"1", ".", "zip">>, <<"1", "2", ".", "zip">>,
      <<"1", ".", "ZIP">>, <<"1", ".", "zip", "\n">>, <<"U+7B2C", "1", "U+7AE0", ".", "zip">> }

ArchiveInit ==
    /\ PoolIdle
    /\ tasks = <<>>
    /\ \E k \in 0..MaxImages, deep \in BOOLEAN :
        fs = {Dir(SeriesDir)} \cup SourceATree(k, deep)
                \cup {Dir(SourceB), File(join(SourceB, <<"a", ".", "jpg">>), 5)}
    /\ fs0 = fs
    /\ chapter_cache = <<>>
    /\ comic_chapters = <<>>
    /\ frame = <<>>
    /\ stats = <<>>
    /\ progress_calls = <<>>
    /\ returned = <<>>

\* add_task before the run, one task per source directory
add_archive_task(source_path, target_path, rename_pattern) ==
    /\ frame = <<>>
    /\ \A t \in 1..Len(tasks) :
        tasks[t].status = "pending" /\ tasks[t].source_path # source_path
    /\ tasks' = Append(tasks, ArchiveTask(source_path, target_path, rename_pattern))
    /\ stats' = <<>>
    /\ UNCHANGED <<sched, fs, fs0, chapter_cache, comic_chapters, frame, progress_calls, returned>>

\* the except branch and the two statements after it
Raise(t) ==
    /\ tasks' = Failed(tasks, t)
    /\ frame' = <<>>

\* one worker thread takes the tasks in list order; lines 105-113: status,
\* count_images_in_directory, getmtime (which raises for a missing source)
compress_begin(t) ==
    /\ frame = <<>>
    /\ t \in PendingTasks(tasks)
    /\ t = Min(PendingTasks(tasks))
    /\ LET counted == count_images_in_directory(fs, tasks[t].source_path)
           started == [tasks EXCEPT ![t].status = "running",
                                    ![t].image_count = counted[1],
                                    ![t].original_size = counted[2]]
       IN IF exists(fs, tasks[t].source_path)
          THEN /\ tasks' = started
               /\ frame' = [fn |-> "compress_directory", t |-> t, at |-> "zip"]
          ELSE /\ tasks' = Failed(started, t)
               /\ frame' = <<>>
    /\ stats' = <<>>
    /\ UNCHANGED <<sched, fs, fs0, chapter_cache, comic_chapters, progress_calls, returned>>

At(t, label) ==
    /\ t \in 1..Len(tasks)
    /\ frame # <<>> /\ frame.fn = "compress_directory"
    /\ frame.t = t /\ frame.at = label

\* lines 116-126: the temporary archive is created (replacing a file of that
\* name) and every image below the source is written into it; an I/O error
\* leaves the temporary file behind
compress_zip(t) ==
    /\ At(t, "zip")
    /\ LET temp == temp_target_path(tasks[t])
           others == {n \in fs : n.path # temp}
       IN IF isdir(fs, dirname(temp)) /\ ~isdir(fs, temp)
          THEN \/ /\ fs' = others \cup {Archive(temp, ZipEntries(ImagesBelow(fs, tasks[t].source_path)))}
                  /\ frame' = [frame EXCEPT !.at = "finalize"]
                  /\ UNCHANGED tasks
               \/ /\ fs' = others \cup {Archive(temp, EmptyBag)}
                  /\ Raise(t)
          ELSE /\ UNCHANGED fs
               /\ Raise(t)
    /\ stats' = <<>>
    /\ UNCHANGED <<sched, fs0, chapter_cache, comic_chapters, progress_calls, returned>>

\* lines 129-145: os.remove of an existing final file, os.rename of the
\* temporary file, task.target_path; os.remove raises for a directory, and
\* an I/O error of os.rename leaves the temporary file where it is
compress_finalize(t) ==
    /\ At(t, "finalize")
    /\ LET temp == temp_target_path(tasks[t])
           final == final_target_path(tasks[t])
           archive == CHOOSE n \in fs : n.path = temp
           removed == {n \in fs : n.path # final}
       IN IF isdir(fs, final)
          THEN UNCHANGED fs /\ Raise(t)
          ELSE \/ /\ fs' = (removed \ {archive}) \cup {[archive EXCEPT !.path = final]}
                  /\ tasks' = [tasks EXCEPT ![t].target_path = final]
                  /\ frame' = [frame EXCEPT !.at = "record"]
               \/ /\ fs' = removed
                  /\ Raise(t)
    /\ stats' = <<>>
    /\ UNCHANGED <<sched, fs0, chapter_cache, comic_chapters, progress_calls, returned>>

\* lines 148-153: utime, md5 and compressed_size of the final file
compress_record(t) ==
    /\ At(t, "record")
    /\ \/ /\ tasks' = [tasks EXCEPT
                ![t].md5 = "set",
                ![t].compressed_size = (CHOOSE n \in fs : n.path = tasks[t].target_path).size]
          /\ frame' = [frame EXCEPT !.at = "rmtree"]
       \/ Raise(t)
    /\ stats' = <<>>
    /\ UNCHANGED <<sched, fs, fs0, chapter_cache, comic_chapters, progress_calls, returned>>

\* lines 156-166: the source tree is removed and the task is completed; an
\* I/O error of rmtree leaves the directories without their files
compress_rmtree(t) ==
    /\ At(t, "rmtree")
    /\ \/ /\ fs' = rmtree(fs, tasks[t].source_path)
          /\ tasks' = Completed(tasks, t)
          /\ frame' = <<>>
       \/ /\ fs' = {n \in fs : n \notin Below(fs, tasks[t].source_path) \/ n.kind = "dir"}
          /\ Raise(t)
    /\ stats' = <<>>
    /\ UNCHANGED <<sched, fs0, chapter_cache, comic_chapters, progress_calls, returned>>

\* get_stats(); the returned dictionary is kept until the next step of the run
call_get_stats ==
    /\ stats = <<>>
    /\ stats' = get_stats(tasks, total_tasks, completed_tasks)
    /\ UNCHANGED <<tasks, sched, fs, fs0, chapter_cache, comic_chapters, frame, progress_calls, returned>>

Archiver ==
    \E t \in ArchiveIds :
        \/ compress_begin(t)
        \/ compress_zip(t)
        \/ compress_finalize(t)
        \/ compress_record(t)
        \/ compress_rmtree(t)

ArchiveNext ==
    \/ \E source_path \in {SourceA, SourceB}, name \in TargetNames, rename_pattern \in BOOLEAN :
            add_archive_task(source_path, join(SeriesDir, name), rename_pattern)
    \/ Archiver
    \/ call_get_stats

ArchiveSpec == ArchiveInit /\ [][ArchiveNext]_vars

\* ---- claims on get_stats and the archiver -------------------------------
RECURSIVE SumOver(_, _, _)
SumOver(ts, ids, field) ==
    IF ids = {} THEN 0
    ELSE LET i == CHOOSE j \in ids : TRUE IN ts[i][field] + SumOver(ts, ids \ {i}, field)

\* C13: the totals of get_stats() are the sums of image_count, original_size
\* and compressed_size over exactly the completed tasks of the list,
\* failed_tasks is the number of failed tasks, and compression_ratio is
\* total_compressed_size / total_original_size, or 0 when the latter is 0.
C13_StatsFromTaskList ==
    LET CompletedIds(ts) == {t \in 1..Len(ts) : ts[t].status = "completed"}
    IN
    stats # <<>> =>
        /\ stats.total_images = SumOver(tasks, CompletedIds(tasks), "image_count")
        /\ stats.total_original_size = SumOver(tasks, CompletedIds(tasks), "original_size")
        /\ stats.total_compressed_size = SumOver(tasks, CompletedIds(tasks), "compressed_size")
        /\ stats.failed_tasks = Cardinality({t \in 1..Len(tasks) : tasks[t].status = "failed"})
        /\ stats.compression_ratio =
            IF stats.total_original_size = 0 THEN 0
            ELSE <<stats.total_compressed_size, stats.total_original_size>>

\* get_stats() with one completed task and one task that failed after its
\* images had been counted
C13_Witness ==
    /\ stats # <<>>
    /\ Len(tasks) = 2
    /\ tasks[1].status = "completed" /\ tasks[1].image_count >= 2
    /\ tasks[2].status = "failed" /\ tasks[2].image_count > 0
    /\ stats.total_images = tasks[1].image_count
    /\ stats.failed_tasks = 1

\* the base name is one or more digits followed by ".zip" and nothing else
ExactlyDigitsZip(name) ==
    /\ Len(name) >= 3
    /\ SubSeq(name, Len(name) - 1, Len(name)) = <<".", "zip">>
    /\ \A i \in 1..(Len(name) - 2) : IsDigit(name[i])

ChapterName(name) ==
    <<"U+7B2C">> \o SubSeq(name, 1, Len(name) - 2) \o <<"U+7AE0", ".", "zip">>

\* C18: when the task renames and the requested target's base name is
\* exactly <digits>.zip, the finalized target_path is the chapter name for
\* those digits in the same directory, and differs from the requested path;
\* in every other case the finalized target_path is the requested path.
C18_NumericRename ==
    [][\A t \in 1..Len(tasks) :
        (At(t, "finalize") /\ frame' # <<>> /\ frame'.at = "record") =>
            IF tasks[t].rename_pattern /\ ExactlyDigitsZip(basename(tasks[t].target_path))
            THEN /\ tasks'[t].target_path =
                        join(dirname(tasks[t].target_path),
                             ChapterName(basename(tasks[t].target_path)))
                 /\ tasks'[t].target_path # tasks[t].target_path
            ELSE tasks'[t].target_path = tasks[t].target_path]_vars

\* C19: a task that completes leaves an archive with one entry per image
\* file that was below its source directory, at any depth, with the same
\* total size, and records that number and that size.
C19_RoundTrip ==
    [][\A t \in 1..Len(tasks) :
        (tasks[t].status # "completed" /\ tasks'[t].status = "completed") =>
            LET images == ImagesBelow(fs0, tasks[t].source_path)
                archive == CHOOSE n \in fs' : n.path = tasks'[t].target_path
            IN /\ exists(fs', tasks'[t].target_path)
               /\ BagCardinality(archive.entries) = Cardinality(images)
               /\ EntriesSize(archive.entries) = SumSizes(images)
               /\ tasks'[t].image_count = Cardinality(images)
               /\ tasks'[t].original_size = SumSizes(images)]_vars

\* a completed task whose source held two images of one name at two depths
C19_Witness ==
    \E t \in 1..Len(tasks) :
        /\ tasks[t].status = "completed"
        /\ tasks[t].image_count >= 3
        /\ \E m, n \in ImagesBelow(fs0, tasks[t].source_path) :
            m # n /\ basename(m.path) = basename(n.path)
        /\ exists(fs, tasks[t].target_path)
        /\ ~exists(fs, tasks[t].source_path)

\* ---- scan, prepare, add_task, run: CompressionWorker.run ----------------
max_depth == 10

root_path == <<<<"R">>>>

Series == join(root_path, <<"S">>)

ChapterPool == << <<"1">>, <<"U+7B2C", "1", "U+7AE0">>, <<"c">>, <<"2">> >>

ChapterNames ==
    {ChapterPool[i] : i \in 1..(IF MaxChapters < Len(ChapterPool) THEN MaxChapters ELSE Len(ChapterPool))}

\* a directory of the series: k images, and possibly a sub-directory with one
\* more image
ChapterTree(name, k, deep) ==
    LET chapter == join(Series, name) IN
        {Dir(chapter)}
        \cup {File(join(chapter, ImagePool[i]), i) :
                i \in 1..(IF k < Len(ImagePool) THEN k ELSE Len(ImagePool))}
        \cup (IF deep
              THEN {Dir(join(chapter, <<"d">>)),
                    File(join(join(chapter, <<"d">>), <<"a", ".", "jpg">>), 4)}
              ELSE {})

\* a directory is absent (<<>>), flat with up to MaxImages images, or holds an
\* image next to a sub-directory
ChapterShapes == {<<k, FALSE>> : k \in 0..MaxImages} \cup {<<1, TRUE>>, <<>>}

PipelineInit ==
    /\ PoolIdle
    /\ tasks = <<>>
    /\ \E shape \in [ChapterNames -> ChapterShapes] :
        fs = {Dir(root_path), Dir(Series)}
             \cup UNION {IF shape[name] = <<>> THEN {}
                         ELSE ChapterTree(name, shape[name][1], shape[name][2]) :
                         name \in ChapterNames}
    /\ fs0 = fs
    /\ chapter_cache = <<>>
    /\ comic_chapters = <<>>
    /\ frame = <<>>
    /\ stats = <<>>
    /\ progress_calls = <<>>
    /\ returned = <<>>

\* the order in which os.walk lists directory names is the order of
\* os.scandir, which is arbitrary: the chapter directories are listed in the
\* order of the pool or in the opposite order, the other names follow them
Reverse(s) == [i \in 1..Len(s) |-> s[Len(s) + 1 - i]]

WalkOrders ==
    LET listed == SelectSeq(ChapterPool, LAMBDA name : name \in ChapterNames)
    IN {listed \o << <<"S">>, <<"d">> >>, Reverse(listed) \o << <<"S">>, <<"d">> >>}

\* `dirs` of one os.walk step after the excluded names are filtered out
walk_dirs(f, root, order) ==
    LET Listed(name) == isdir(f, join(root, name)) /\ name \notin excluded_dirs
    IN SelectSeq(order, Listed)

\* is_chapter_directory as one call: the flags after the loop
classify(f, dir_path) ==
    IF ~isdir(f, dir_path) THEN FALSE
    ELSE ChapterResult(DirectImages(f, dir_path) # {},
                       \E n \in scandir(f, dir_path) :
                            n.kind = "dir" /\ basename(n.path) \notin excluded_dirs)

\* the second pass of scan_for_comic_directories from one os.walk step on:
\* the directories of `dirs` are classified, then os.walk descends into each
RECURSIVE scan_from(_, _, _), scan_each(_, _, _, _)
scan_from(f, root, order) ==
    IF Len(root) - Len(root_path) >= max_depth THEN <<>>
    ELSE LET dirs == walk_dirs(f, root, order)
             Chapter(name) == classify(f, join(root, name))
             found == SelectSeq(dirs, Chapter)
         IN [i \in 1..Len(found) |-> <<root, join(root, found[i]), found[i]>>]
                \o scan_each(f, root, dirs, order)

scan_each(f, root, dirs, order) ==
    IF dirs = <<>> THEN <<>>
    ELSE scan_from(f, join(root, Head(dirs)), order) \o scan_each(f, root, Tail(dirs), order)

scan_for_comic_directories(f, order) == scan_from(f, root_path, order)

\* the directories that the scan passes to is_chapter_directory
Classified(f) ==
    {n.path : n \in {m \in Below(f, root_path) :
        /\ m.kind = "dir"
        /\ Len(m.path) - Len(root_path) <= max_depth
        /\ \A i \in (Len(root_path) + 1)..Len(m.path) : m.path[i] \notin excluded_dirs}}

\* prepare_compression_tasks: the pairs <<source, target>>
prepare_renamed_tasks(chapters, rename_pattern) ==
    [i \in 1..Len(chapters) |->
        <<chapters[i][2],
          IF rename_pattern /\ ExactlyDigitsZip(chapters[i][3] \o <<".", "zip">>)
          THEN join(chapters[i][1], ChapterName(chapters[i][3] \o <<".", "zip">>))
          ELSE join(chapters[i][1], chapters[i][3] \o <<".", "zip">>)>>]

prepare_compression_tasks(chapters, rename_pattern) ==
    [i \in 1..Len(chapters) |->
        <<chapters[i][2], join(chapters[i][1], chapters[i][3] \o <<".", "zip">>)>>]

\* CompressionWorker.run up to manager.start(): scan, prepare, add_task
scan_and_add_tasks(rename_pattern, order) ==
    /\ frame = <<>>
    /\ chapter_cache = <<>> /\ tasks = <<>>
    /\ comic_chapters' = scan_for_comic_directories(fs, order)
    /\ chapter_cache' = [path \in Classified(fs) |-> classify(fs, path)]
    /\ LET pairs == prepare_compression_tasks(comic_chapters', rename_pattern)
       IN tasks' = [i \in 1..Len(pairs) |-> ArchiveTask(pairs[i][1], pairs[i][2], rename_pattern)]
    /\ stats' = <<>>
    /\ UNCHANGED <<sched, fs, fs0, frame, progress_calls, returned>>

PipelineNext ==
    \/ \E rename_pattern \in BOOLEAN, order \in WalkOrders :
            scan_and_add_tasks(rename_pattern, order)
    \/ Archiver
    \/ call_get_stats

PipelineSpec == PipelineInit /\ [][PipelineNext]_vars

\* ---- claim on the whole run ---------------------------------------------
\* the directories directly inside the series directory
ChapterDirs(f) == {n.path : n \in {m \in scandir(f, Series) : m.kind = "dir"}}

\* every directory of the series directly contains images and nothing else,
\* and there is at least one
FlatSeries(f) ==
    /\ ChapterDirs(f) # {}
    /\ \A c \in ChapterDirs(f) : DirectImages(f, c) # {} /\ scandir(f, c) = DirectImages(f, c)

\* the scan is done, every task is completed and get_stats has been called
RunFinishedWithoutFailures ==
    /\ chapter_cache # <<>>
    /\ tasks # <<>>
    /\ frame = <<>>
    /\ \A t \in 1..Len(tasks) : tasks[t].status = "completed"
    /\ stats # <<>>

Candidates == {comic_chapters[i][2] : i \in 1..Len(comic_chapters)}

IsArchive(f, path) == \E n \in f : n.path = path /\ n.kind = "file"

\* the archive of a chapter directory: <chapterName>.zip, or the chapter
\* name for the digits when the run renames and the name is all digits
RenamedArchive(c, rename_pattern) ==
    IF rename_pattern /\ ExactlyDigitsZip(basename(c) \o <<".", "zip">>)
    THEN join(Series, ChapterName(basename(c) \o <<".", "zip">>))
    ELSE join(Series, basename(c) \o <<".", "zip">>)

C30_ExecutingAtMostPoolSize ==
    Cardinality({et \in ExecIds \X TaskIds : fut[et[1]][et[2]] = "running"}) <= max_workers

\* ---- scan_for_comic_directories, one classified directory at a time ------
MaxChain == 12     \* levels of the deepest chain of directories below the root

\* a directory that os.scandir cannot list: permission denied, or removed
\* after the listing of its parent was read
Locked(path) == [path |-> path, kind |-> "locked", size |-> 0, entries |-> EmptyBag]

\* DirEntry.is_dir() of an entry of the parent's listing
listed_as_dir(f, path) == \E n \in f : n.path = path /\ n.kind \in {"dir", "locked", "gone"}

\* the exception os.scandir(path) raises, "None" when it lists the directory
scandir_error(f, path) ==
    IF \E n \in f : n.path = path /\ n.kind = "dir" THEN "None"
    ELSE IF \E n \in f : n.path = path /\ n.kind = "locked" THEN "PermissionError"
    ELSE IF \E n \in f : n.path = path /\ n.kind = "file" THEN "NotADirectoryError"
    ELSE "FileNotFoundError"

\* except (PermissionError, FileNotFoundError)
caught == {"PermissionError", "FileNotFoundError"}

\* is_chapter_directory as one call: the value returned or the exception
\* raised, and the cache after the call
is_chapter_directory_call(f, cache, dir_path) ==
    IF dir_path \in DOMAIN cache
    THEN [value |-> cache[dir_path], raised |-> "None", cache |-> cache]
    ELSE IF scandir_error(f, dir_path) = "None"
    THEN [value |-> classify(f, dir_path), raised |-> "None",
          cache |-> Put(cache, dir_path, classify(f, dir_path))]
    ELSE IF scandir_error(f, dir_path) \in caught
    THEN [value |-> FALSE, raised |-> "None", cache |-> Put(cache, dir_path, FALSE)]
    ELSE [value |-> FALSE, raised |-> scandir_error(f, dir_path), cache |-> cache]

\* the outcome of a call as the caller sees it, next to what the directory
\* was at that time, what a scanner with an empty cache returns for it, and
\* whether the call before on this path saw the same directory
Outcome(f, prior, call, dir_path) ==
    \* what os.scandir(dir_path) gives at the time of the call
    LET listing == [error |-> scandir_error(f, dir_path), entries |-> scandir(f, dir_path)]
    IN [value |-> call.value, raised |-> call.raised, listing |-> listing,
        fresh |-> is_chapter_directory_call(f, <<>>, dir_path).value,
        repeated |-> /\ dir_path \in DOMAIN prior
                     /\ prior[dir_path].raised = "None"
                     /\ prior[dir_path].listing = listing,
        previous |-> IF dir_path \in DOMAIN prior THEN prior[dir_path].value ELSE call.value]

\* path strings: the names of a path separated by os.sep, as root_path is
\* given (with or without a trailing separator) and as os.walk builds them
Sep == <<"/">>

path_string(path, trailing) ==
    [i \in 1..(2 * Len(path) - 1) |-> IF i % 2 = 1 THEN path[(i + 1) \div 2] ELSE Sep]
        \o (IF trailing THEN <<Sep>> ELSE <<>>)

os_path_join(s, name) == IF s[Len(s)] = Sep THEN Append(s, name) ELSE s \o <<Sep, name>>

\* str.count(os.sep)
count_sep(s) == Cardinality({i \in DOMAIN s : s[i] = Sep})

\* the directory a path string names
path_of(s) == SelectSeq(s, LAMBDA x : x # Sep)

\* `dirs` of the os.walk step of root, in listing order
os_walk_dirs(f, root, order) ==
    SelectSeq(order, LAMBDA name : listed_as_dir(f, join(path_of(root), name)))

keep_all(dirs) == dirs

\* dirs[:] = [d for d in dirs if d not in self.excluded_dirs]
not_excluded(dirs) == SelectSeq(dirs, LAMBDA d : d \notin excluded_dirs)

\* root.count(os.sep) - root_path.count(os.sep) >= self.max_depth
at_depth_limit(root, top) == count_sep(root) - count_sep(top) >= max_depth

\* the first pass (lines 79-87): total_dirs; os.walk skips a directory that
\* it cannot list
RECURSIVE count_pass(_, _, _, _), count_each(_, _, _, _, _)
count_pass(f, root, top, order) ==
    IF scandir_error(f, path_of(root)) # "None" THEN 0
    ELSE LET dirs == os_walk_dirs(f, root, order)
             kept == IF at_depth_limit(root, top) THEN <<>> ELSE not_excluded(dirs)
         IN Len(dirs) + count_each(f, root, kept, top, order)

count_each(f, root, dirs, top, order) ==
    IF dirs = <<>> THEN 0
    ELSE count_pass(f, os_path_join(root, Head(dirs)), top, order)
            + count_each(f, root, Tail(dirs), top, order)

total_dirs_of_top(f, top, order) == Len(os_walk_dirs(f, top, order))

total_dirs(f, top, order) == count_pass(f, top, top, order)

\* the second pass (lines 92-102): the dir_path strings in the order in
\* which the loop reaches them
RECURSIVE classify_pass(_, _, _, _), classify_each(_, _, _, _, _)
classify_pass(f, root, top, order) ==
    IF scandir_error(f, path_of(root)) # "None" THEN <<>>
    ELSE IF at_depth_limit(root, top) THEN <<>>
    ELSE LET dirs == not_excluded(os_walk_dirs(f, root, order))
         IN [i \in 1..Len(dirs) |-> os_path_join(root, dirs[i])]
                \o classify_each(f, root, dirs, top, order)

classify_each(f, root, dirs, top, order) ==
    IF dirs = <<>> THEN <<>>
    ELSE classify_pass(f, os_path_join(root, Head(dirs)), top, order)
            \o classify_each(f, root, Tail(dirs), top, order)

\* the trees of the scan: a series directory S with a flat chapter c, a
\* chapter e that has a sub-directory with images, an excluded directory
\* with images and a directory u that cannot be listed; next to it a chain
\* of directories n/n/.../n with an image at every level
ScanSeries == join(root_path, <<"S">>)

Image(dir, name) == File(join(dir, name), 1)

ScanParts ==
    [c |-> {Dir(join(ScanSeries, <<"c">>)),
            Image(join(ScanSeries, <<"c">>), <<"a", ".", "jpg">>)},
     e |-> {Dir(join(ScanSeries, <<"e">>)),
            Image(join(ScanSeries, <<"e">>), <<"a", ".", "jpg">>),
            Dir(join(join(ScanSeries, <<"e">>), <<"p">>)),
            Image(join(join(ScanSeries, <<"e">>), <<"p">>), <<"b", ".", "JPG">>)},
     git |-> {Dir(join(ScanSeries, <<".", "git">>)),
              Image(join(ScanSeries, <<".", "git">>), <<"a", ".", "jpg">>),
              Dir(join(join(ScanSeries, <<".", "git">>), <<"x">>)),
              Image(join(join(ScanSeries, <<".", "git">>), <<"x">>), <<"b", ".", "JPG">>)}]

Unlistable ==
    {{},
     {Locked(join(ScanSeries, <<"u">>)), Image(join(ScanSeries, <<"u">>), <<"a", ".", "jpg">>)},
     {[Locked(join(ScanSeries, <<"u">>)) EXCEPT !.kind = "gone"]}}

Chain(k) ==
    LET ChainDir(i) == root_path \o [j \in 1..i |-> <<"n">>]
    IN UNION {{Dir(ChainDir(i)), Image(ChainDir(i), <<"a", ".", "jpg">>)} : i \in 1..k}

ScanOrders ==
    LET names == << <<"S">>, <<"n">>, <<"c">>, <<".", "git">>, <<"e">>, <<"u">>, <<"p">>, <<"x">> >>
    IN {names, Reverse(names)}

ScanInit ==
    /\ PoolIdle
    /\ tasks = <<>>
    /\ \E parts \in SUBSET {"c", "e", "git"}, u \in Unlistable, k \in {0} \cup {j \in 1..MaxChain : j >= max_depth - 1},
          series \in BOOLEAN :
        fs = {Dir(root_path)} \cup Chain(k)
             \cup (IF series
                   THEN {Dir(ScanSeries)} \cup u \cup UNION {ScanParts[p] : p \in parts}
                   ELSE {})
    /\ fs0 = fs
    /\ chapter_cache = <<>>
    /\ comic_chapters = <<>>
    /\ frame = <<>>
    /\ stats = <<>>
    /\ progress_calls = <<>>
    /\ returned = <<>>

\* the call up to the second loop: the first pass has counted total_dirs
scan_begin(trailing, order, progress_callback) ==
    /\ frame = <<>>
    /\ chapter_cache = <<>> /\ comic_chapters = <<>> /\ progress_calls = <<>>
    /\ LET top == path_string(root_path, trailing)
       IN frame' = [fn |-> "scan_for_comic_directories",
                    todo |-> classify_pass(fs, top, top, order),
                    total_dirs |-> total_dirs(fs, top, order),
                    processed_dirs |-> 0,
                    progress_callback |-> progress_callback,
                    raised |-> "None"]
    /\ UNCHANGED <<tasks, sched, fs, fs0, chapter_cache, comic_chapters, stats,
                   progress_calls, returned>>

InScan == frame # <<>> /\ frame.fn = "scan_for_comic_directories" /\ frame.raised = "None"

\* lines 101-115 for one dir_name: the progress callback, is_chapter_directory
\* and the append; an exception of is_chapter_directory ends the scan
scan_classify ==
    /\ InScan
    /\ frame.todo # <<>>
    /\ LET dir_path == path_of(Head(frame.todo))
           processed == frame.processed_dirs + 1
           call == is_chapter_directory_call(fs, chapter_cache, dir_path)
       IN /\ progress_calls' =
                IF frame.progress_callback /\ frame.total_dirs > 0
                THEN Append(progress_calls, <<processed, frame.total_dirs>>)
                ELSE progress_calls
          /\ chapter_cache' = call.cache
          /\ returned' = Put(returned, dir_path, Outcome(fs, returned, call, dir_path))
          /\ IF call.raised # "None"
             THEN /\ frame' = [frame EXCEPT !.raised = call.raised, !.processed_dirs = processed]
                  /\ UNCHANGED comic_chapters
             ELSE /\ frame' = [frame EXCEPT !.todo = Tail(@), !.processed_dirs = processed]
                  /\ comic_chapters' =
                        IF call.value
                        THEN Append(comic_chapters,
                                    <<dirname(dir_path), dir_path, basename(dir_path)>>)
                        ELSE comic_chapters
    /\ UNCHANGED <<tasks, sched, fs, fs0, stats>>

\* return comic_chapters
scan_return ==
    /\ InScan
    /\ frame.todo = <<>>
    /\ frame' = <<>>
    /\ UNCHANGED <<tasks, sched, fs, fs0, chapter_cache, comic_chapters, stats,
                   progress_calls, returned>>

ScanNext ==
    \/ \E trailing \in BOOLEAN, order \in ScanOrders, progress_callback \in BOOLEAN :
            scan_begin(trailing, order, progress_callback)
    \/ scan_classify
    \/ scan_return

ScanSpec == ScanInit /\ [][ScanNext]_vars

\* ---- claims on the scan --------------------------------------------------
\* the scan has returned after classifying at least one directory
ScanDone == frame = <<>> /\ returned # <<>>

\* the directory or one of its ancestors below the root has an excluded name
ExcludedBelowRoot(path) ==
    \E i \in (Len(root_path) + 1)..Len(path) : path[i] \in excluded_dirs

Level(path) == Len(path) - Len(root_path)

\* C21: a directory whose name is in the exclusion set, and every directory
\* below it, is never passed to is_chapter_directory and never appears as a
\* candidate of the scan.
C21_ExcludedNeverClassified ==
    \A path \in DOMAIN returned \cup Candidates : ~ExcludedBelowRoot(path)

C21_Witness ==
    /\ ScanDone
    /\ Candidates # {}
    /\ \E n \in fs :
        /\ n.kind = "dir" /\ basename(n.path) \in excluded_dirs
        /\ DirectImages(fs, n.path) # {}
        /\ \E m \in scandir(fs, n.path) : m.kind = "dir" /\ DirectImages(fs, m.path) # {}
        /\ dirname(n.path) \in DOMAIN returned

\* C22: the scan output never contains a candidate whose chapter directory
\* lies inside the chapter directory of another candidate.
C22_NoNestedCandidates ==
    \A a, b \in Candidates : ~(Len(a) < Len(b) /\ SubSeq(b, 1, Len(a)) = a)

\* C26: with a progress callback, every directory the classify pass visits
\* gives one call of it, whose fraction lies in [0, 1] and is not smaller
\* than the fraction of the call before.
C26_ProgressOncePerDirectory ==
    [][(scan_classify /\ frame.progress_callback) =>
            /\ Len(progress_calls') = Len(progress_calls) + 1
            /\ LET p == progress_calls'[Len(progress_calls')]
               IN /\ p[2] > 0 /\ 0 <= p[1] /\ p[1] <= p[2]
                  /\ progress_calls # <<>> =>
                        progress_calls[Len(progress_calls)][1] * p[2]
                            <= p[1] * progress_calls[Len(progress_calls)][2]]_vars

C26_Witness ==
    /\ ScanDone
    /\ Len(progress_calls) = Cardinality(DOMAIN returned)
    /\ Len(progress_calls) >= max_depth
    /\ progress_calls[Len(progress_calls)][1] < progress_calls[Len(progress_calls)][2]
    /\ \E n \in fs : n.kind = "dir" /\ basename(n.path) \in excluded_dirs
    /\ \E n \in fs : n.kind = "dir" /\ Level(n.path) > max_depth

\* C27: no directory more than max_depth levels below the root is classified
\* or emitted, and every chapter directory at most max_depth levels below
\* the root that is not under an excluded directory is emitted.
C27_DepthBounded ==
    \* a directory the scan can reach: every directory above it can be listed
    LET Reachable(f, path) ==
            \A i \in Len(root_path)..(Len(path) - 1) :
                scandir_error(f, SubSeq(path, 1, i)) = "None"
    IN
    /\ \A path \in DOMAIN returned \cup Candidates : Level(path) <= max_depth
    /\ ScanDone =>
        \A n \in fs :
            (/\ n.kind = "dir" /\ DirectImages(fs, n.path) # {}
             /\ Level(n.path) >= 1 /\ Level(n.path) <= max_depth
             /\ ~ExcludedBelowRoot(n.path) /\ Reachable(fs, n.path))
                => n.path \in Candidates

\* ---- is_chapter_directory called on a directory that changes ------------
\* A scanner that outlives one scan (DirectoryStructureModel keeps one) is
\* asked about the same paths again while other processes, or the archiver,
\* change the directory.
CallDir == join(root_path, <<"D">>)

CallSubdir == join(CallDir, <<"d">>)

\* the directory is missing, cannot be listed, is a file, or is a directory
\* with some of the content
CallTrees ==
    LET CallContent ==
            {{Image(CallDir, <<"a", ".", "jpg">>)},
             {File(join(CallDir, <<"n", ".", "txt">>), 1)},
             {Dir(CallSubdir), Image(CallSubdir, <<"b", ".", "JPG">>)}}
    IN
    {{Dir(root_path)},
     {Dir(root_path), Locked(CallDir), Image(CallDir, <<"a", ".", "jpg">>)},
     {Dir(root_path), File(CallDir, 1)}}
    \cup {{Dir(root_path), Dir(CallDir)} \cup UNION content : content \in SUBSET CallContent}

CallInit ==
    /\ PoolIdle
    /\ tasks = <<>>
    /\ fs \in CallTrees
    /\ fs0 = fs
    /\ chapter_cache = <<>>
    /\ comic_chapters = <<>>
    /\ frame = <<>>
    /\ stats = <<>>
    /\ progress_calls = <<>>
    /\ returned = <<>>

\* scanner.is_chapter_directory(dir_path)
call_is_chapter_directory(dir_path) ==
    /\ frame = <<>>
    /\ LET call == is_chapter_directory_call(fs, chapter_cache, dir_path)
       IN /\ chapter_cache' = call.cache
          /\ returned' = Put(returned, dir_path, Outcome(fs, returned, call, dir_path))
    /\ UNCHANGED <<tasks, sched, fs, fs0, comic_chapters, frame, stats, progress_calls>>

\* the directory changes on disk between two calls
disk_change(tree) ==
    /\ frame = <<>>
    /\ tree # fs
    /\ fs' = tree
    /\ UNCHANGED <<tasks, sched, fs0, chapter_cache, comic_chapters, frame, stats,
                   progress_calls, returned>>

CallNext ==
    \/ \E dir_path \in {CallDir, CallSubdir} : call_is_chapter_directory(dir_path)
    \/ \E tree \in CallTrees : disk_change(tree)

CallSpec == CallInit /\ [][CallNext]_vars

\* C24: two calls of is_chapter_directory on the same path with the
\* directory unchanged in between return the same result, and the result of
\* the second call is what an uncached classification of the directory
\* returns.
C24_IdempotentClassification ==
    \A p \in DOMAIN returned :
        returned[p].repeated =>
            /\ returned[p].raised = "None"
            /\ returned[p].value = returned[p].previous
            /\ returned[p].value = returned[p].fresh

\* C25: is_chapter_directory returns false and does not raise for a
\* directory that cannot be read or is missing at the time of the call.
C25_UnlistableClassifiesFalse ==
    \A p \in DOMAIN returned :
        returned[p].listing.error \in {"PermissionError", "FileNotFoundError"}
            => returned[p].raised = "None" /\ returned[p].value = FALSE

\* ---- claims on the tasks of one scan ------------------------------------
\* C23: no two tasks built from one scan share a source path or a final
\* destination path, with renaming enabled or disabled.
C23_TasksDisjoint ==
    \A s, t \in 1..Len(tasks) :
        s # t => /\ tasks[s].source_path # tasks[t].source_path
                 /\ final_target_path(tasks[s]) # final_target_path(tasks[t])

\* C28: prepare_compression_tasks gives one pair per candidate, in order:
\* the i-th task has the chapter directory of the i-th candidate as source
\* and <comic_title_dir>/<chapter_name>.zip as target, whatever the value of
\* rename_pattern.
C28_PrepareOneToOne ==
    \* the step of the run that scans and adds the tasks
    [][(chapter_cache = <<>> /\ chapter_cache' # <<>>) =>
        /\ Len(tasks') = Len(comic_chapters')
        /\ \A i \in 1..Len(tasks') :
            /\ tasks'[i].source_path = comic_chapters'[i][2]
            /\ tasks'[i].target_path =
                    join(comic_chapters'[i][1], comic_chapters'[i][3] \o <<".", "zip">>)]_vars

C28_Witness ==
    /\ frame = <<>>
    /\ Len(tasks) >= 2
    /\ Len(tasks) = Len(comic_chapters)
    /\ \A i \in 1..Len(tasks) : tasks[i].status = "pending" /\ tasks[i].rename_pattern
    /\ \E i \in 1..Len(tasks) :
        /\ ExactlyDigitsZip(basename(tasks[i].target_path))
        /\ tasks[i].target_path # final_target_path(tasks[i])

\* C29: a task whose worker has removed its source directory has its archive
\* at its final target path, and a task that failed in a step before the
\* removal has its source directory as it was.
C29_SourceRemovedLast ==
    \A t \in 1..Len(tasks) :
        /\ (tasks[t].status \in {"completed", "failed"} /\ tasks[t].md5 = "set")
                => IsArchive(fs, tasks[t].target_path)
        /\ (tasks[t].status = "failed" /\ tasks[t].md5 = "None")
                => /\ isdir(fs, tasks[t].source_path)
                   /\ Below(fs, tasks[t].source_path) = Below(fs0, tasks[t].source_path)

\* ---- the end of a run as the caller sees it ------------------------------
\* C31: whenever get_progress() returns 1 (the completed counter equals the
\* total, which ends the wait loop of the caller), every task of the run is
\* completed or failed, also after pause() or cancel().
C31_FullProgressMeansAllTerminal ==
    LET progress == get_progress(completed_tasks, total_tasks)
    IN progress[1] = progress[2] => RunTasksTerminal

\* ---- the lock around the shared fields -----------------------------------
\* C32: every step that changes the completed counter or appends to the task
\* list is made under self.lock: it is the increment of a completion hook
\* that has just taken the lock, or the hooks of cancelled futures that
\* shutdown() runs one by one under the lock; start() and add_task() write
\* neither field without it.
C32_SharedWritesUnderLock ==
    [][(completed_tasks' # completed_tasks \/ Len(tasks') # Len(tasks)) =>
        \/ \E e \in ExecIds, t \in TaskIds :
                lock = Free /\ lock' = <<e, t>> /\ fut[e][t] = "returned"
        \/ /\ lock = Free /\ lock' = Free
           /\ \E e \in ExecIds, t \in TaskIds :
                fut[e][t] = "queued" /\ fut'[e][t] = "cancelled"]_vars

\* ---- termination of a run --------------------------------------------------
\* C33: in a run that start() began on T >= 1 pending tasks and in which
\* pause() and cancel() are never called, with fair worker threads every
\* task of the run eventually is completed or failed, the completed counter
\* eventually equals T and get_progress() eventually returns 1.
C33_RunTerminates ==
    ([]~paused) =>
        [](running /\ total_tasks >= 1 =>
            <>(/\ RunTasksTerminal
               /\ completed_tasks = total_tasks
               /\ LET progress == get_progress(completed_tasks, total_tasks)
                  IN progress[1] = progress[2]))

\* a run of two tasks without pause() has ended, one task failed
C33_Witness ==
    /\ running /\ ~paused /\ ~controlCalled
    /\ total_tasks = 2
    /\ RunTasksTerminal
    /\ \E t \in 1..total_tasks : tasks[t].status = "failed"
    /\ get_progress(completed_tasks, total_tasks) = <<2, 2>>

\* ---- pause() and resume() on a manager that was never started ------------
\* C34: while start() was never called (running is false and was never set,
\* total_tasks is 0), whatever pause() and resume() calls were made, every
\* task is pending, no compress_directory call has begun and no completion
\* hook has run.
C34_NoRunWithoutStart ==
    (~running /\ ~cancelCalled /\ total_tasks = 0) =>
        /\ \A t \in 1..Len(tasks) : tasks[t].status = "pending"
        /\ \A e \in ExecIds, t \in TaskIds : fut[e][t] \in {"none", "queued", "dequeued"}
        /\ completed_tasks = 0

\* ---- a second run on the same manager -------------------------------------
\* C35: after a run has finished (every task of the run completed or failed,
\* every future settled, the counter equal to the total) and add_task() has
\* added a pending task, start() begins a new run: it resets the counter,
\* takes the new length of the task list as total and submits the new task.
C35_StartBeginsNewRun ==
    (/\ total_tasks >= 1 /\ completed_tasks = total_tasks
     /\ RunTasksTerminal /\ AllSettled
     /\ Len(tasks) > total_tasks
     /\ \A t \in (total_tasks + 1)..Len(tasks) : tasks[t].status = "pending"
     /\ nexec < MaxExecutors /\ CanSubmit(fut, StartSubmit(tasks)))
        => ENABLED (/\ start
                    /\ completed_tasks' = 0
                    /\ total_tasks' = Len(tasks)
                    /\ \A t \in (total_tasks + 1)..Len(tasks) : fut'[executor'][t] = "queued")

\* ---- what a completed task leaves of its source ---------------------------
\* C36: when a task becomes completed, every regular file that was below its
\* source directory, image or not and at any depth, has an entry with its
\* base name and size in the archive at the task's target path.
C36_NoFileLost ==
    [][\A t \in 1..Len(tasks) :
        (tasks[t].status # "completed" /\ tasks'[t].status = "completed") =>
            /\ exists(fs', tasks'[t].target_path)
            /\ \A n \in Below(fs0, tasks[t].source_path) :
                n.kind = "file" =>
                    BagIn(Entry(n), (CHOOSE a \in fs' : a.path = tasks'[t].target_path).entries)]_vars
====
